---- MODULE Spec2Model ----
(***************************************************************************)
(* A model of CryptoClient (src/src/client.rs): the session owned by the   *)
(* caller (writer, reader_join, message_id), the background task spawned   *)
(* by connect for every connection, the two tokio mutexes (the callback    *)
(* `events` and the per-connection send handle `writer`) and the calls     *)
(* connect / disconnect / wait / subscribe / unsubscribe / auth.           *)
(* Every await of the code is a step boundary, so the caller and the       *)
(* background tasks interleave exactly where the code can be suspended.    *)
(***************************************************************************)
EXTENDS Integers, Sequences, FiniteSets, TLC

\* ---------------------------------------------------------------- bounds
MaxConn == 2      \* connections opened by connect during one run
MaxMsgId == 3     \* message_id is not pushed beyond this value
MaxFrames == 2    \* frames delivered by the transports during one run
MaxNonce == 2     \* nonces of the requests handed to the serializer are 0..MaxNonce

\* ------------------------------------------------------------- constants
None == 0                     \* Option::None of writer / reader_join / events holder
InitialMessageId == 1         \* CryptoClient::new, message_id: 1

Conns == 1..MaxConn

\* ------------------------------------------------------ outbound requests
SendOps == {"subscribe", "unsubscribe", "auth"}

MethodOf(op) ==
  CASE op = "subscribe" -> "subscribe"
    [] op = "unsubscribe" -> "unsubscribe"
    [] op = "auth" -> "public/auth"

NoMsg == [method |-> "none", id |-> 0, data |-> "None"]

\* subscription::Request::{Subscribe, Unsubscribe, Auth} { id: self.message_id, .. }
Request(op, id) == [method |-> MethodOf(op), id |-> id, data |-> "None"]

\* subscription::Request::HeartbeatResponse { id }
HeartbeatResponseWrongId(id) == [method |-> "public/respond-heartbeat", id |-> InitialMessageId, data |-> "None"]
HeartbeatResponse(id) == [method |-> "public/respond-heartbeat", id |-> id, data |-> "None"]

\* Message::Pong(message)
PongMsgNoPayload(data) == [method |-> "Pong", id |-> 0, data |-> "None"]
PongMsg(data) == [method |-> "Pong", id |-> 0, data |-> data]

\* ---------------------------------------------------------- inbound frames
Fr(kind, shape, id, code, result, message, channel, data) ==
  [kind |-> kind, shape |-> shape, id |-> id, code |-> code, result |-> result,
   message |-> message, channel |-> channel, data |-> data]

NoFrame == Fr("none", "none", 0, 0, "None", "None", "None", "None")

HbIds == {2, 7}
PingData == {"p1", "p2"}
CloseData == {"None", "cf"}

TextFrames ==
  {Fr("Text", "HeartbeatRequest", i, 0, "None", "None", "None", "None") : i \in HbIds}
  \cup {Fr("Text", "SubscriptionResponse", 1, 0, "r1", "None", "book", "None"),
        Fr("Text", "SubscriptionResponse", 2, 3, "r2", "Invalid", "book", "None"),
        Fr("Text", "SubscriptionResponse", 1, 0, "None", "None", "None", "None"),
        Fr("Text", "SubscriptionResponse", 2, 3, "None", "Invalid", "book", "None"),
        Fr("Text", "UnsubscriptionResponse", 1, 0, "None", "None", "None", "None"),
        Fr("Text", "AuthResponse", 1, 3, "None", "None", "None", "None"),
        Fr("Text", "Malformed", 0, 0, "None", "None", "None", "None")}

Frames ==
  TextFrames
  \cup {Fr("Ping", "none", 0, 0, "None", "None", "None", d) : d \in PingData}
  \cup {Fr("Pong", "none", 0, 0, "None", "None", "None", "p1")}
  \cup {Fr("Close", "none", 0, 0, "None", "None", "None", d) : d \in CloseData}
  \cup {Fr("Binary", "none", 0, 0, "None", "None", "None", "None")}
  \cup {Fr("ReadError", "none", 0, 0, "None", "None", "None", "None")}

\* serde_json::from_str::<message::Message>(&text)
Decode(f) == [ok |-> f.shape # "Malformed", msg |-> f]

\* ------------------------------------------------- results and callback args
Res(kind, data) == [kind |-> kind, data |-> data]
OkRes == Res("Ok", "None")
NoRes == Res("none", "None")

Arg(tag, kind, id, code, message, channel, data) ==
  [tag |-> tag, kind |-> kind, id |-> id, code |-> code, message |-> message,
   channel |-> channel, data |-> data]

NoArg == Arg("none", "none", 0, 0, "None", "None", "None")
ErrArg(kind, data) == Arg("Err", kind, 0, 0, "None", "None", data)

\* CryptoError::SubscriptionError { id, code, message, channel }
SubscriptionError(m) == Arg("Err", "SubscriptionError", m.id, m.code, m.message, m.channel, "None")

\* SubscribeResult::{UnsubscriptionResult, AuthResult} { success: code == 0 }
SuccessFlag(code) == IF code = 0 THEN "true" ELSE "false"

\* what the loop does with one frame: await the callback, call it and drop the
\* future, answer on the send handle, or nothing
Await(arg) == [act |-> "await", arg |-> arg, msg |-> NoMsg]
Drop(arg) == [act |-> "drop", arg |-> arg, msg |-> NoMsg]
Reply(msg) == [act |-> "reply", arg |-> NoArg, msg |-> msg]
Skip == [act |-> "skip", arg |-> NoArg, msg |-> NoMsg]

RouteTextCodeFirst(m) ==
  CASE m.shape = "HeartbeatRequest" -> Reply(HeartbeatResponse(m.id))
    [] m.shape = "SubscriptionResponse" ->
         IF m.code # 0 THEN Drop(SubscriptionError(m))
         ELSE IF m.result # "None"
           THEN Await(Arg("Ok", "Result", 0, 0, "None", "None", m.result))
         ELSE Skip
    [] m.shape = "UnsubscriptionResponse" ->
         Await(Arg("Ok", "UnsubscriptionResult", 0, 0, "None", "None", SuccessFlag(m.code)))
    [] m.shape = "AuthResponse" ->
         Await(Arg("Ok", "AuthResult", 0, 0, "None", "None", SuccessFlag(m.code)))

RouteTextNoResultReported(m) ==
  CASE m.shape = "HeartbeatRequest" -> Reply(HeartbeatResponse(m.id))
    [] m.shape = "SubscriptionResponse" ->
         IF m.result # "None" THEN Await(Arg("Ok", "Result", 0, 0, "None", "None", m.result))
         ELSE Drop(SubscriptionError(m))
    [] m.shape = "UnsubscriptionResponse" ->
         Await(Arg("Ok", "UnsubscriptionResult", 0, 0, "None", "None", SuccessFlag(m.code)))
    [] m.shape = "AuthResponse" ->
         Await(Arg("Ok", "AuthResult", 0, 0, "None", "None", SuccessFlag(m.code)))
RouteText(m) ==
  CASE m.shape = "HeartbeatRequest" -> Reply(HeartbeatResponse(m.id))
    [] m.shape = "SubscriptionResponse" ->
         IF m.result # "None" THEN Await(Arg("Ok", "Result", 0, 0, "None", "None", m.result))
         ELSE IF m.code # 0 THEN Drop(SubscriptionError(m))
         ELSE Skip
    [] m.shape = "UnsubscriptionResponse" ->
         Await(Arg("Ok", "UnsubscriptionResult", 0, 0, "None", "None", SuccessFlag(m.code)))
    [] m.shape = "AuthResponse" ->
         Await(Arg("Ok", "AuthResult", 0, 0, "None", "None", SuccessFlag(m.code)))

Route(f) ==
  CASE f.kind = "Text" ->
         IF Decode(f).ok THEN RouteText(Decode(f).msg) ELSE Await(ErrArg("SerdeError", "None"))
    [] f.kind = "Ping" -> Reply(PongMsg(f.data))
    [] f.kind = "Pong" -> Skip
    [] f.kind = "Close" -> Await(ErrArg("CloseError", f.data))
    [] f.kind = "ReadError" -> Await(ErrArg("TungsteniteErrorString", "None"))
    [] OTHER -> Await(ErrArg("UnexpectedMessageError", "None"))

\* ------------------------------------------ the wire text of a request
\* a subscription::Request; params is the serde_json::Value of Subscribe, given by its
\* own JSON text, channels the Vec<String> of UnsubscribeParams
WireRequest(variant, id, params, channels, api_key, sig, nonce) ==
  [variant |-> variant, id |-> id, params |-> params, channels |-> channels,
   api_key |-> api_key, sig |-> sig, nonce |-> nonce]

WireIds == (1..MaxMsgId) \cup {19, 22}
WireNonces == 0..MaxNonce
WireParams == {"{\"channels\":[\"channel1\",\"channel2\"]}", "[\"book.BTC_USD\"]", "null"}
WireChannels == {<<>>, <<"user.order.ETH_CRO">>, <<"channel1", "channel2">>}

WireRequests ==
  {WireRequest("HeartbeatResponse", i, "", <<>>, "", "", 0) : i \in WireIds}
  \cup {WireRequest("Subscribe", i, p, <<>>, "", "", n) :
          i \in WireIds, p \in WireParams, n \in WireNonces}
  \cup {WireRequest("Unsubscribe", i, "", ch, "", "", n) :
          i \in WireIds, ch \in WireChannels, n \in WireNonces}
  \cup {WireRequest("Auth", i, "", <<>>, "key", "5e1f", n) : i \in WireIds, n \in WireNonces}

\* an unsigned integer as serde_json writes it: decimal digits
Digits == <<"0", "1", "2", "3", "4", "5", "6", "7", "8", "9">>

RECURSIVE Dec(_)
Dec(n) == IF n < 10 THEN Digits[n + 1] ELSE Dec(n \div 10) \o Digits[(n % 10) + 1]

\* a String as serde_json writes it (none of the strings here needs an escape)
JsonString(str) == "\"" \o str \o "\""

RECURSIVE Join(_)
Join(items) ==
  IF items = <<>> THEN ""
  ELSE IF Len(items) = 1 THEN items[1]
  ELSE items[1] \o "," \o Join(Tail(items))

JsonArray(items) == "[" \o Join(items) \o "]"

\* a struct or struct variant: its entries in the order they are given
JsonObject(entries) ==
  "{" \o Join([i \in 1..Len(entries) |-> JsonString(entries[i][1]) \o ":" \o entries[i][2]])
      \o "}"

\* #[serde(rename = "..")] of each variant
Tag(variant) ==
  CASE variant = "HeartbeatResponse" -> "public/respond-heartbeat"
    [] variant = "Subscribe" -> "subscribe"
    [] variant = "Unsubscribe" -> "unsubscribe"
    [] variant = "Auth" -> "public/auth"

\* the fields of each variant, in the order of their declaration
Fields(r) ==
  CASE r.variant = "HeartbeatResponse" -> << <<"id", Dec(r.id)>> >>
    [] r.variant = "Subscribe" ->
         << <<"id", Dec(r.id)>>, <<"params", r.params>>, <<"nonce", Dec(r.nonce)>> >>
    [] r.variant = "Unsubscribe" ->
         << <<"id", Dec(r.id)>>,
            <<"params",
              JsonObject(<< <<"channels",
                              JsonArray([i \in 1..Len(r.channels) |->
                                           JsonString(r.channels[i])])>> >>)>>,
            <<"nonce", Dec(r.nonce)>> >>
    [] r.variant = "Auth" ->
         << <<"id", Dec(r.id)>>, <<"api_key", JsonString(r.api_key)>>,
            <<"sig", JsonString(r.sig)>>, <<"nonce", Dec(r.nonce)>> >>

\* serde_json::to_string of a Request: #[serde(tag = "method")] writes the tag as the
\* first entry of the object, the fields of the variant follow
to_string_tag_last(r) == JsonObject(Fields(r) \o << <<"method", JsonString(Tag(r.variant))>> >>)
to_string(r) == JsonObject(<< <<"method", JsonString(Tag(r.variant))>> >> \o Fields(r))

\* ------------------------------------------------------------------ state
VARIABLES
  message_id,   \* CryptoClient.message_id
  writer,       \* CryptoClient.writer: None or the connection of the stored send handle
  reader_join,  \* CryptoClient.reader_join: None or the connection of the stored JoinHandle
  nconn,        \* connections opened so far
  life,         \* the last of connect / disconnect that returned Ok
  open,         \* open[c]: the websocket of connection c still accepts data frames
  wlock,        \* wlock[c]: holder of the Mutex around the send half of c
  events,       \* holder of the Mutex around the callback (None or a connection)
  tpc,          \* tpc[c]: position of the background task of c
  cur,          \* cur[c]: the frame the task of c is processing
  nframes,      \* frames taken from all streams
  join_result,  \* join_result[c]: the task's local join_result
  outcome,      \* outcome[c]: the output stored in the JoinHandle of c
  abort,        \* abort[c]: JoinHandle::abort was called
  joined,       \* the output of the stored JoinHandle was taken by an await
  cbN,          \* cbN[c]: calls of the callback made for the current frame
  cbDone,       \* cbDone[c]: callback futures awaited to completion for the current frame
  cbArg,        \* cbArg[c]: argument of the last callback call for the current frame
  wrN,          \* wrN[c]: messages the task wrote for the current frame
  twr,          \* twr[c]: the last message the task wrote for the current frame
  cpc,          \* position of the caller
  creq,         \* the call in progress
  ret,          \* the call that has just returned, and its result
  sentIds,      \* ids of the requests sent successfully, oldest first
  callerCb,     \* calls of the callback made from inside a call of the caller
  wreq,         \* the subscription::Request handed to serde_json::to_string
  wtext         \* the text serde_json::to_string returned for wreq

sessionVars == <<message_id, writer, reader_join, nconn, life>>
linkVars == <<open, wlock, events>>
taskVars == <<tpc, cur, nframes, join_result, outcome>>
joinVars == <<abort, joined>>
obsVars == <<cbN, cbDone, cbArg, wrN, twr>>
callVars == <<cpc, creq, ret, sentIds>>
wireVars == <<wreq, wtext>>
vars == <<sessionVars, linkVars, taskVars, joinVars, obsVars, callVars, callerCb, wireVars>>

NoPre == [message_id |-> 0, writer |-> None, reader_join |-> None, life |-> "none",
          ended |-> FALSE, finished |-> FALSE, nconn |-> 0]
NoReq == [op |-> "none", msg |-> NoMsg, pre |-> NoPre]
NoRet == [op |-> "none", res |-> NoRes, tried |-> FALSE, pre |-> NoPre]

NoRequest == [variant |-> "none", id |-> 0, params |-> "", channels |-> <<>>,
              api_key |-> "", sig |-> "", nonce |-> 0]
NoText == ""

\* CryptoClient::new
InitClient ==
  /\ message_id = InitialMessageId
  /\ writer = None
  /\ reader_join = None
  /\ nconn = 0
  /\ life = "none"
  /\ open = [c \in Conns |-> FALSE]
  /\ wlock = [c \in Conns |-> "free"]
  /\ events = None
  /\ tpc = [c \in Conns |-> "none"]
  /\ cur = [c \in Conns |-> NoFrame]
  /\ nframes = 0
  /\ join_result = [c \in Conns |-> OkRes]
  /\ outcome = [c \in Conns |-> NoRes]
  /\ abort = [c \in Conns |-> FALSE]
  /\ joined = FALSE
  /\ cbN = [c \in Conns |-> 0]
  /\ cbDone = [c \in Conns |-> 0]
  /\ cbArg = [c \in Conns |-> NoArg]
  /\ wrN = [c \in Conns |-> 0]
  /\ twr = [c \in Conns |-> NoMsg]
  /\ cpc = "idle"
  /\ creq = NoReq
  /\ ret = NoRet
  /\ sentIds = <<>>
  /\ callerCb = 0

Init == InitClient /\ wreq = NoRequest /\ wtext = NoText

\* ---------------------------------------------------------------- helpers
\* `if let Some(writer) = self.writer.as_mut()`
WriterPresent(w) == w # None

\* tokio::sync::Mutex::lock resolves only when nobody holds the guard
WriterFreeAlways(h) == TRUE
WriterFree(h) == h = "free"
EventsFree(e) == e = None

\* JoinHandle::is_finished
IsFinishedAlways(c) == TRUE
IsFinished(c) == tpc[c] \in {"finished", "cancelled"}

\* the background loop of the stored connection ended by itself (Close or exhaustion)
LoopEnded == WriterPresent(writer) /\ tpc[writer] = "finished"

\* `self.message_id += 1` after `send(..).await?`
IdAfterSendAlways(mid, ok) == mid + 1
IdAfterSend(mid, ok) == IF ok THEN mid + 1 ELSE mid

\* results of Sink::send: a closed websocket refuses data frames
SendOutcomes(isOpen) == IF isOpen THEN {TRUE, FALSE} ELSE {FALSE}

\* results of serializing (and, for auth, of keying the mac) before the send
EncodeResults(op) ==
  IF op = "auth" THEN {"Ok", "SerdeError", "ShaInvalidLength"} ELSE {"Ok", "SerdeError"}

\* the session as the call finds it
Pre ==
  [message_id |-> message_id, writer |-> writer, reader_join |-> reader_join,
   life |-> life, ended |-> LoopEnded,
   finished |-> reader_join # None /\ IsFinished(reader_join), nconn |-> nconn]

StartReq(op, msg) == [op |-> op, msg |-> msg, pre |-> Pre]

MkRet(req, res, tried) == [op |-> req.op, res |-> res, tried |-> tried, pre |-> req.pre]

\* connect, subscribe, unsubscribe and auth hand an error to their caller, with `?` or
\* with Err(..); none of them locks `events`, so none of them calls the callback
CallerCallbackOnError(n, res) == IF res.kind \in {"none", "Ok"} THEN n ELSE n + 1
CallerCallback(n, res) == n

\* ------------------------------------------------------- the caller's calls
\* connect never assigns message_id: the counter set by new() lives on through it
IdAfterConnectReset(mid) == InitialMessageId
IdAfterConnect(mid) == mid

\* the send handle stored by connect: the `?` on the handshake returns before the
\* assignment, which only a successful handshake reaches
WriterAfterConnectCleared(w, ok, new) == IF ok THEN new ELSE None
WriterAfterConnect(w, ok, new) == IF ok THEN new ELSE w

\* connect: the handshake either fails (nothing changes) or a new transport is split,
\* the task is spawned and reader_join / writer are overwritten
Connect ==
  /\ cpc = "idle"
  /\ cpc' = "returned"
  /\ \E ok \in BOOLEAN:
       /\ writer' = WriterAfterConnect(writer, ok, nconn + 1)
       /\ IF ok
         THEN /\ nconn < MaxConn
              /\ nconn' = nconn + 1
              /\ reader_join' = nconn + 1
              /\ open' = [open EXCEPT ![nconn + 1] = TRUE]
              /\ tpc' = [tpc EXCEPT ![nconn + 1] = "read"]
              /\ outcome' = [c \in Conns |-> NoRes]
              /\ joined' = FALSE
              /\ life' = "connect"
              /\ ret' = MkRet(StartReq("connect", NoMsg), OkRes, FALSE)
         ELSE /\ ret' = MkRet(StartReq("connect", NoMsg), Res("TungsteniteError", "None"), FALSE)
              /\ UNCHANGED <<reader_join, nconn, life, open, tpc, joined, outcome>>
  /\ message_id' = IdAfterConnect(message_id)
  /\ UNCHANGED <<wlock, events, cur, nframes, join_result, abort, obsVars,
                 creq, sentIds>>
  /\ callerCb' = CallerCallback(callerCb, ret'.res)
  /\ UNCHANGED wireVars

\* what subscribe / unsubscribe / auth come to before their first await: the Option
\* test on writer, then the `?` on the encoding of the request
PreflightNoTest(w, enc) == enc
Preflight(w, enc) == IF WriterPresent(w) THEN enc ELSE "NotConnectedError"

\* subscribe / unsubscribe / auth up to the first await; the request is built with the
\* current message_id
CallStart(op) ==
  /\ cpc = "idle"
  /\ WriterPresent(writer) => message_id < MaxMsgId
  /\ \E enc \in EncodeResults(op):
       IF Preflight(writer, enc) = "Ok"
         THEN /\ cpc' = "send_lock"
              /\ creq' = StartReq(op, Request(op, message_id))
              /\ UNCHANGED ret
         ELSE /\ ret' = MkRet(StartReq(op, NoMsg), Res(Preflight(writer, enc), "None"), FALSE)
              /\ cpc' = "returned"
              /\ UNCHANGED creq
  /\ UNCHANGED <<sessionVars, linkVars, taskVars, joinVars, obsVars, sentIds>>
  /\ callerCb' = CallerCallback(callerCb, ret'.res)
  /\ UNCHANGED wireVars

\* `writer.lock().await`
CallLock ==
  /\ cpc = "send_lock"
  /\ WriterFree(wlock[writer])
  /\ wlock' = [wlock EXCEPT ![writer] = "caller"]
  /\ cpc' = "send_write"
  /\ UNCHANGED <<sessionVars, open, events, taskVars, joinVars, obsVars, creq, ret,
                 sentIds>>
  /\ UNCHANGED <<callerCb, wireVars>>

\* `.send(Message::text(text)).await?; self.message_id += 1; Ok(())`
CallSend ==
  /\ cpc = "send_write"
  /\ \E ok \in SendOutcomes(open[writer]):
       /\ message_id' = IdAfterSend(message_id, ok)
       /\ IF ok
            THEN /\ sentIds' = Append(sentIds, creq.msg.id)
                 /\ ret' = MkRet(creq, OkRes, TRUE)
            ELSE /\ ret' = MkRet(creq, Res("TungsteniteError", "None"), TRUE)
                 /\ UNCHANGED sentIds
  /\ wlock' = [wlock EXCEPT ![writer] = "free"]
  /\ cpc' = "returned"
  /\ creq' = NoReq
  /\ UNCHANGED <<writer, reader_join, nconn, life, open, events, taskVars, joinVars,
                 obsVars>>
  /\ callerCb' = CallerCallback(callerCb, ret'.res)
  /\ UNCHANGED wireVars

\* the second half of disconnect: abort the stored task and await its JoinHandle
DiscReader(req, tried) ==
  IF reader_join # None
    THEN /\ abort' = [abort EXCEPT ![reader_join] = ~IsFinished(reader_join)]
         /\ cpc' = "disc_join"
         /\ creq' = req
         /\ UNCHANGED <<ret, life>>
    ELSE /\ cpc' = "returned"
         /\ ret' = MkRet(req, OkRes, tried)
         /\ creq' = NoReq
         /\ life' = "disconnect"
         /\ UNCHANGED abort

\* disconnect up to its first await
Disconnect ==
  /\ cpc = "idle"
  /\ IF WriterPresent(writer)
       THEN /\ cpc' = "disc_lock"
            /\ creq' = StartReq("disconnect", NoMsg)
            /\ UNCHANGED <<ret, life, abort>>
       ELSE DiscReader(StartReq("disconnect", NoMsg), FALSE)
  /\ UNCHANGED <<message_id, writer, reader_join, nconn, linkVars, taskVars, joined,
                 obsVars, sentIds>>
  /\ UNCHANGED <<callerCb, wireVars>>

\* `writer.lock().await` of disconnect
DiscLock ==
  /\ cpc = "disc_lock"
  /\ WriterFree(wlock[writer])
  /\ wlock' = [wlock EXCEPT ![writer] = "caller"]
  /\ cpc' = "disc_close"
  /\ UNCHANGED <<sessionVars, open, events, taskVars, joinVars, obsVars, creq, ret,
                 sentIds>>
  /\ UNCHANGED <<callerCb, wireVars>>

\* `.close().await?`: on an error disconnect returns at once, the task is left alone
DiscClose ==
  /\ cpc = "disc_close"
  /\ wlock' = [wlock EXCEPT ![writer] = "free"]
  /\ \E ok \in BOOLEAN:
       IF ok
         THEN /\ open' = [open EXCEPT ![writer] = FALSE]
              /\ DiscReader(creq, TRUE)
         ELSE /\ cpc' = "returned"
              /\ ret' = MkRet(creq, Res("TungsteniteError", "None"), TRUE)
              /\ creq' = NoReq
              /\ UNCHANGED <<open, life, abort>>
  /\ UNCHANGED <<message_id, writer, reader_join, nconn, events, taskVars, joined,
                 obsVars, sentIds>>
  /\ UNCHANGED <<callerCb, wireVars>>

\* `reader.await.ok()`: a JoinHandle whose output was already taken panics when polled
DiscJoin ==
  /\ cpc = "disc_join"
  /\ IsFinished(reader_join)
  /\ IF joined
       THEN /\ cpc' = "panicked"
            /\ UNCHANGED <<ret, life, joined>>
       ELSE /\ joined' = TRUE
            /\ cpc' = "returned"
            /\ ret' = MkRet(creq, OkRes, TRUE)
            /\ life' = "disconnect"
  /\ creq' = NoReq
  /\ UNCHANGED <<message_id, writer, reader_join, nconn, linkVars, taskVars, abort,
                 obsVars, sentIds>>
  /\ UNCHANGED <<callerCb, wireVars>>

\* wait up to its await: Ok(()) without a handle or with a finished task
Wait ==
  /\ cpc = "idle"
  /\ IF reader_join # None /\ ~IsFinished(reader_join)
       THEN /\ cpc' = "wait_join"
            /\ creq' = StartReq("wait", NoMsg)
            /\ UNCHANGED ret
       ELSE /\ ret' = MkRet(StartReq("wait", NoMsg), OkRes, FALSE)
            /\ cpc' = "returned"
            /\ UNCHANGED creq
  /\ UNCHANGED <<sessionVars, linkVars, taskVars, joinVars, obsVars, sentIds>>
  /\ UNCHANGED <<callerCb, wireVars>>

\* `join.await?`: the task's own result once it has finished
WaitJoin ==
  /\ cpc = "wait_join"
  /\ IsFinished(reader_join)
  /\ joined' = TRUE
  /\ ret' = MkRet(creq, outcome[reader_join], FALSE)
  /\ cpc' = "returned"
  /\ creq' = NoReq
  /\ UNCHANGED <<sessionVars, linkVars, taskVars, abort, obsVars, sentIds>>
  /\ UNCHANGED <<callerCb, wireVars>>

\* the caller takes the returned value and goes on
Resume ==
  /\ cpc = "returned"
  /\ cpc' = "idle"
  /\ ret' = NoRet
  /\ UNCHANGED <<sessionVars, linkVars, taskVars, joinVars, obsVars, creq, sentIds>>
  /\ UNCHANGED <<callerCb, wireVars>>

\* ------------------------------------------------------ the background task
AwaitPoints == {"read", "evlock", "wlock", "send", "cb"}

\* the output of a task is kept for its JoinHandle; connect overwrites reader_join,
\* which drops the handle of the connection before, and the output with it
Output(c, res) == IF reader_join = c THEN res ELSE NoRes

\* the locks a task gives back when its guards are dropped
EventsAfter(c) == IF events = c THEN None ELSE events
\* a guard of the send handle that outlives the arm of the ping
WlockAfterKept(c) == wlock
WlockAfter(c) == [wlock EXCEPT ![c] = IF @ = "task" THEN "free" ELSE @]

\* what follows the arm of a frame: Close returns Err(CloseError { frame }) from the
\* task, every other arm goes round the loop
AfterArmNoReturn(f, jr) == [pc |-> "read", outcome |-> NoRes]
AfterArmReturnOnDecodeError(f, jr) ==
  IF f.kind = "Close" THEN [pc |-> "finished", outcome |-> Res("CloseError", f.data)]
  ELSE IF f.shape = "Malformed" THEN [pc |-> "finished", outcome |-> Res("SerdeError", "None")]
  ELSE [pc |-> "read", outcome |-> NoRes]
AfterArmReturnOnReadError(f, jr) ==
  IF f.kind = "Close" THEN [pc |-> "finished", outcome |-> Res("CloseError", f.data)]
  ELSE IF f.kind = "ReadError" THEN [pc |-> "finished", outcome |-> jr]
  ELSE [pc |-> "read", outcome |-> NoRes]
AfterArmReturnOnUnexpected(f, jr) ==
  IF f.kind = "Close" THEN [pc |-> "finished", outcome |-> Res("CloseError", f.data)]
  ELSE IF f.kind = "Binary"
    THEN [pc |-> "finished", outcome |-> Res("UnexpectedMessageError", "None")]
  ELSE [pc |-> "read", outcome |-> NoRes]
AfterArm(f, jr) ==
  IF f.kind = "Close" THEN [pc |-> "finished", outcome |-> Res("CloseError", f.data)]
  ELSE [pc |-> "read", outcome |-> NoRes]

\* `while let Some(next) = read.next().await` yields Some(next); what next holds is
\* drawn where the loop first looks at it, in TaskDispatch
TaskRead(c) ==
  /\ tpc[c] = "read"
  /\ nframes < MaxFrames
  /\ nframes' = nframes + 1
  /\ tpc' = [tpc EXCEPT ![c] = "evlock"]
  /\ UNCHANGED <<sessionVars, linkVars, cur, join_result, outcome, joinVars, obsVars,
                 callVars>>
  /\ UNCHANGED <<callerCb, wireVars>>

\* read.next() yields None: the loop ends and the task returns join_result
TaskExhausted(c) ==
  /\ tpc[c] = "read"
  /\ tpc' = [tpc EXCEPT ![c] = "finished"]
  /\ outcome' = [outcome EXCEPT ![c] = Output(c, join_result[c])]
  /\ join_result' = [join_result EXCEPT ![c] = OkRes]
  /\ open' = [open EXCEPT ![c] = FALSE]
  /\ UNCHANGED <<sessionVars, wlock, events, cur, nframes, joinVars, obsVars, callVars>>
  /\ UNCHANGED <<callerCb, wireVars>>

\* the arm of frame f up to its first await, under the guard of the callback
Dispatch(c, f, ser) ==
  LET r == Route(f) IN
    CASE r.act = "await" ->
           /\ tpc' = [tpc EXCEPT ![c] = "cb"]
           /\ cbN' = [cbN EXCEPT ![c] = @ + 1]
           /\ cbArg' = [cbArg EXCEPT ![c] = r.arg]
      [] r.act = "drop" ->
           /\ tpc' = [tpc EXCEPT ![c] = "iter_end"]
           /\ cbN' = [cbN EXCEPT ![c] = @ + 1]
           /\ cbArg' = [cbArg EXCEPT ![c] = r.arg]
      [] r.act = "skip" ->
           /\ tpc' = [tpc EXCEPT ![c] = "iter_end"]
           /\ UNCHANGED <<cbN, cbArg>>
      [] r.act = "reply" /\ ser ->
           /\ tpc' = [tpc EXCEPT ![c] = "wlock"]
           /\ UNCHANGED <<cbN, cbArg>>
      [] r.act = "reply" /\ ~ser ->
           /\ tpc' = [tpc EXCEPT ![c] = "iter_end"]
           /\ cbN' = [cbN EXCEPT ![c] = @ + 1]
           /\ cbArg' = [cbArg EXCEPT ![c] = ErrArg("SerdeError", "None")]

\* `let e = events.lock().await` in the Ok(message) and in the Err(error) arm, and the
\* match on the frame; serde_json::to_string of the heartbeat answer is Ok or Err; a
\* Close frame has left the websocket closed
TaskDispatch(c) ==
  /\ tpc[c] = "evlock"
  /\ EventsFree(events)
  /\ events' = c
  /\ \E f \in Frames:
       /\ cur' = [cur EXCEPT ![c] = f]
       /\ open' = [open EXCEPT ![c] = IF f.kind = "Close" THEN FALSE ELSE @]
       /\ \E ser \in IF f.shape = "HeartbeatRequest" THEN BOOLEAN ELSE {TRUE}:
            Dispatch(c, f, ser)
  /\ UNCHANGED <<sessionVars, wlock, nframes, join_result, outcome, joinVars, cbDone,
                 wrN, twr, callVars>>
  /\ UNCHANGED <<callerCb, wireVars>>

\* `inner_writer.lock().await` of the heartbeat answer and of the pong
TaskLockWriter(c) ==
  /\ tpc[c] = "wlock"
  /\ WriterFree(wlock[c])
  /\ wlock' = [wlock EXCEPT ![c] = "task"]
  /\ tpc' = [tpc EXCEPT ![c] = "send"]
  /\ UNCHANGED <<sessionVars, open, events, cur, nframes, join_result, outcome,
                 joinVars, obsVars, callVars>>
  /\ UNCHANGED <<callerCb, wireVars>>

\* `.send(..).await` of the heartbeat answer and of the pong, and the `if let Err(error)`
\* around it: the heartbeat arm calls the callback and drops its future, the ping arm
\* awaits it while the guard of the send handle is still alive
TaskSend(c) ==
  /\ tpc[c] = "send"
  /\ \E ok \in SendOutcomes(open[c]):
       IF ok
         THEN /\ wrN' = [wrN EXCEPT ![c] = @ + 1]
              /\ twr' = [twr EXCEPT ![c] = Route(cur[c]).msg]
              /\ wlock' = [wlock EXCEPT ![c] = "free"]
              /\ tpc' = [tpc EXCEPT ![c] = "iter_end"]
              /\ UNCHANGED <<cbN, cbArg>>
         ELSE /\ cbN' = [cbN EXCEPT ![c] = @ + 1]
              /\ cbArg' = [cbArg EXCEPT ![c] = ErrArg("TungsteniteError", "None")]
              /\ IF cur[c].kind = "Ping"
                   THEN /\ tpc' = [tpc EXCEPT ![c] = "cb"]
                        /\ UNCHANGED wlock
                   ELSE /\ tpc' = [tpc EXCEPT ![c] = "iter_end"]
                        /\ wlock' = [wlock EXCEPT ![c] = "free"]
              /\ UNCHANGED <<wrN, twr>>
  /\ UNCHANGED <<sessionVars, open, events, cur, nframes, join_result, outcome,
                 joinVars, cbDone, callVars>>
  /\ UNCHANGED <<callerCb, wireVars>>

\* the awaited callback future completes; a read error is then recorded in join_result
TaskCallbackDone(c) ==
  /\ tpc[c] = "cb"
  /\ cbDone' = [cbDone EXCEPT ![c] = @ + 1]
  /\ wlock' = WlockAfter(c)
  /\ tpc' = [tpc EXCEPT ![c] = "iter_end"]
  /\ join_result' = [join_result EXCEPT ![c] =
                       IF cur[c].kind = "ReadError"
                         THEN Res("TungsteniteError", "None") ELSE @]
  /\ UNCHANGED <<sessionVars, open, events, cur, nframes, outcome, joinVars, cbN, cbArg,
                 wrN, twr, callVars>>
  /\ UNCHANGED <<callerCb, wireVars>>

\* the end of the arm of a frame: the task returns (Close) or the loop goes round; either
\* way the guard `e` of the callback is dropped and the locals of the iteration with it
TaskIterEnd(c) ==
  /\ tpc[c] = "iter_end"
  /\ events' = EventsAfter(c)
  /\ tpc' = [tpc EXCEPT ![c] = AfterArm(cur[c], join_result[c]).pc]
  /\ outcome' = [outcome EXCEPT ![c] = Output(c, AfterArm(cur[c], join_result[c]).outcome)]
  /\ cur' = [cur EXCEPT ![c] = NoFrame]
  /\ cbN' = [cbN EXCEPT ![c] = 0]
  /\ cbDone' = [cbDone EXCEPT ![c] = 0]
  /\ cbArg' = [cbArg EXCEPT ![c] = NoArg]
  /\ wrN' = [wrN EXCEPT ![c] = 0]
  /\ twr' = [twr EXCEPT ![c] = NoMsg]
  /\ UNCHANGED <<sessionVars, open, wlock, nframes, join_result, joinVars, callVars>>
  /\ UNCHANGED <<callerCb, wireVars>>

\* JoinHandle::abort takes effect where the task is suspended: its future is dropped
\* together with the guards and the locals it holds
TaskCancel(c) ==
  /\ abort[c]
  /\ tpc[c] \in AwaitPoints
  /\ tpc' = [tpc EXCEPT ![c] = "cancelled"]
  /\ outcome' = [outcome EXCEPT ![c] = Output(c, Res("JoinError", "cancelled"))]
  /\ abort' = [abort EXCEPT ![c] = FALSE]
  /\ events' = EventsAfter(c)
  /\ wlock' = WlockAfter(c)
  /\ cur' = [cur EXCEPT ![c] = NoFrame]
  /\ cbN' = [cbN EXCEPT ![c] = 0]
  /\ cbDone' = [cbDone EXCEPT ![c] = 0]
  /\ cbArg' = [cbArg EXCEPT ![c] = NoArg]
  /\ wrN' = [wrN EXCEPT ![c] = 0]
  /\ twr' = [twr EXCEPT ![c] = NoMsg]
  /\ join_result' = [join_result EXCEPT ![c] = OkRes]
  /\ UNCHANGED <<sessionVars, open, nframes, joined, callVars>>
  /\ UNCHANGED <<callerCb, wireVars>>

\* ------------------------------------------------------------ specification
\* a returned value and the end of an iteration are looked at in the state they occur
\* in: Resume and TaskIterEnd are taken before any other step
Observed == cpc = "returned" \/ \E c \in Conns: tpc[c] = "iter_end"

Next ==
  \/ ~Observed /\ Connect
  \/ ~Observed /\ \E op \in SendOps: CallStart(op)
  \/ ~Observed /\ CallLock
  \/ ~Observed /\ CallSend
  \/ ~Observed /\ Disconnect
  \/ ~Observed /\ DiscLock
  \/ ~Observed /\ DiscClose
  \/ ~Observed /\ DiscJoin
  \/ ~Observed /\ Wait
  \/ ~Observed /\ WaitJoin
  \/ Resume
  \/ \E c \in Conns: ~Observed /\ TaskRead(c)
  \/ \E c \in Conns: ~Observed /\ TaskExhausted(c)
  \/ \E c \in Conns: ~Observed /\ TaskDispatch(c)
  \/ \E c \in Conns: ~Observed /\ TaskLockWriter(c)
  \/ \E c \in Conns: ~Observed /\ TaskSend(c)
  \/ \E c \in Conns: ~Observed /\ TaskCallbackDone(c)
  \/ \E c \in Conns: TaskIterEnd(c)
  \/ \E c \in Conns: ~Observed /\ TaskCancel(c)

Spec == Init /\ [][Next]_vars

\* ------------------------------------------------ specification with progress
\* a step that needs no lock is taken once it stays possible: a returned value is
\* taken, an iteration ends, a write on the transport and a call of the callback
\* complete
StepsComplete ==
  /\ WF_vars(Resume)
  /\ WF_vars(CallSend)
  /\ WF_vars(DiscClose)
  /\ \A c \in Conns:
       /\ WF_vars(TaskIterEnd(c))
       /\ WF_vars(TaskSend(c))
       /\ WF_vars(TaskCallbackDone(c))

\* tokio::sync::Mutex hands the lock to its waiters in the order they asked for it. A
\* caller that waits for the send handle, and a task that waits for the callback, get
\* the lock once it stays free; a task that waits for the send handle gets it although
\* the caller may take and give it back without end
LocksFair ==
  /\ WF_vars(CallLock)
  /\ WF_vars(DiscLock)
  /\ \A c \in Conns:
       /\ WF_vars(TaskDispatch(c))
       /\ SF_vars(TaskLockWriter(c))

LiveSpec == Spec /\ StepsComplete /\ LocksFair

\* --------------------------------------- specification of the serialization
\* a client just constructed and any Request: serde_json::to_string(&message)
InitWire == InitClient /\ wreq \in WireRequests /\ wtext = NoText

Serialize ==
  /\ wreq # NoRequest
  /\ wtext = NoText
  /\ wtext' = to_string(wreq)
  /\ UNCHANGED <<sessionVars, linkVars, taskVars, joinVars, obsVars, callVars, callerCb,
                 wreq>>

NextWire == Serialize

SpecWire == InitWire /\ [][NextWire]_vars

\* ------------------------------------------------------------------ claims
Returned(ops) == cpc = "returned" /\ ret.op \in ops

\* C1: a subscribe, unsubscribe or auth that returns Ok leaves message_id one above the
\* value it found, one that returns an error leaves it as it found it, and the ids of
\* the requests sent successfully are 1, 2, 3, ... in this order.
C1_IdAdvancesOnSuccessOnly ==
  /\ \A i \in 1..Len(sentIds): sentIds[i] = i
  /\ message_id = Len(sentIds) + 1
  /\ Returned(SendOps) =>
       IF ret.res.kind = "Ok"
         THEN message_id = ret.pre.message_id + 1 /\ ret.tried
         ELSE message_id = ret.pre.message_id

C1_Witness ==
  /\ Returned({"auth"})
  /\ ret.res.kind = "Ok"
  /\ sentIds = <<1, 2>>

\* C2: as long as no connect has succeeded, subscribe, unsubscribe and auth return
\* NotConnectedError without suspending, nothing is written and no send handle is
\* locked, and message_id is still 1.
C2_NotConnectedBeforeConnect ==
  nconn = 0 =>
    /\ message_id = 1
    /\ sentIds = <<>>
    /\ cpc \in {"idle", "returned"}
    /\ \A c \in Conns: wlock[c] = "free" /\ wrN[c] = 0
    /\ Returned(SendOps) => ret.res.kind = "NotConnectedError" /\ ~ret.tried

C2_Witness == nconn = 0 /\ Returned({"unsubscribe"}) /\ ret.res.kind = "NotConnectedError"

\* C3: a subscribe, unsubscribe or auth made after disconnect has returned Ok, and before
\* another connect succeeds, returns NotConnectedError (stated for the calls whose
\* request is built without a serialization or signing error).
C3_NotConnectedAfterDisconnect ==
  (/\ Returned(SendOps)
   /\ ret.pre.life = "disconnect"
   /\ ret.res.kind \notin {"SerdeError", "ShaInvalidLength"}) =>
    ret.res.kind = "NotConnectedError"

\* C4: a subscribe, unsubscribe or auth made once the background loop of the session has
\* ended by a Close frame or by exhaustion returns NotConnectedError, no send is
\* attempted and message_id is unchanged (stated for the calls whose request is built
\* without a serialization or signing error).
C4_NotConnectedAfterLoopEnd ==
  (/\ Returned(SendOps)
   /\ ret.pre.ended
   /\ ret.res.kind \notin {"SerdeError", "ShaInvalidLength"}) =>
    /\ ret.res.kind = "NotConnectedError"
    /\ ~ret.tried
    /\ message_id = ret.pre.message_id

\* C5: the arm of a Close frame calls the callback once, with CloseError carrying the
\* frame, and awaits it; the task then returns that CloseError; a task that has returned
\* dispatches nothing more (no callback, no write, no frame).
C5_CloseArm ==
  \A c \in Conns:
    (tpc[c] = "iter_end" /\ cur[c].kind = "Close") =>
      /\ cbN[c] = 1
      /\ cbDone[c] = 1
      /\ cbArg[c] = Arg("Err", "CloseError", 0, 0, "None", "None", cur[c].data)
      /\ wrN[c] = 0

C5_CloseStep ==
  \A c \in Conns:
    /\ (tpc[c] = "iter_end" /\ cur[c].kind = "Close") =>
         /\ tpc'[c] = "finished"
         /\ reader_join = c => outcome'[c] = Res("CloseError", cur[c].data)
    /\ tpc[c] = "finished" =>
         /\ tpc'[c] = "finished"
         /\ cur'[c] = NoFrame /\ cbN'[c] = 0 /\ cbDone'[c] = 0 /\ wrN'[c] = 0
         /\ events' # c

C5_CloseEndsLoop == []C5_CloseArm /\ [][C5_CloseStep]_vars

C5_Witness ==
  \E c \in Conns: tpc[c] = "finished" /\ outcome[c] = Res("CloseError", "cf")

\* C6: a wait made when the task of the session has ended with CloseError returns that
\* CloseError.
C6_WaitReturnsCloseError ==
  (/\ Returned({"wait"})
   /\ reader_join # None
   /\ outcome[reader_join].kind = "CloseError") => ret.res = outcome[reader_join]

\* C7: at the end of the arm of a HeartbeatRequest{id} the loop has either written one
\* message or called the callback once; when it has written, the message is the
\* HeartbeatResponse with the id received and the callback was not called.
C7_HeartbeatAnswered ==
  \A c \in Conns:
    (tpc[c] = "iter_end" /\ cur[c].shape = "HeartbeatRequest") =>
      /\ wrN[c] + cbN[c] = 1
      /\ wrN[c] = 1 =>
           /\ twr[c].method = "public/respond-heartbeat"
           /\ twr[c].id = cur[c].id
           /\ cbN[c] = 0 /\ cbDone[c] = 0

C7_Witness ==
  \E c \in Conns:
    /\ tpc[c] = "iter_end" /\ cur[c].shape = "HeartbeatRequest" /\ cur[c].id = 7
    /\ wrN[c] = 1 /\ message_id = 2

\* C8: when the loop has done with a frame and goes on to read the next one, every call
\* of the callback made for the frame has run to completion, and no two calls of the
\* callback are in progress at once.
C8_CallbacksCompleteInOrder ==
  /\ \A c \in Conns: tpc[c] = "iter_end" => cbDone[c] = cbN[c]
  /\ Cardinality({c \in Conns : tpc[c] = "cb"}) <= 1

\* C9: the caller (subscribe, unsubscribe, auth, disconnect) and the background task
\* (heartbeat answer, pong) are never both inside a write on the send handle of one
\* connection.
CallerWriting(c) == writer = c /\ cpc \in {"send_write", "disc_close"}
TaskWriting(c) == tpc[c] = "send"

C9_OneWriter == \A c \in Conns: ~(CallerWriting(c) /\ TaskWriting(c))

C9_Witness ==
  \E c \in Conns:
    \/ CallerWriting(c) /\ tpc[c] = "wlock"
    \/ TaskWriting(c) /\ writer = c /\ cpc \in {"send_lock", "disc_lock"}

\* C10: at the end of the arm of a SubscriptionResponse without result and with
\* code # 0, the callback has been called once with the SubscriptionError carrying
\* the id, code, message and channel of the response, and has run to completion.
C10_SubscriptionErrorDelivered ==
  \A c \in Conns:
    (/\ tpc[c] = "iter_end"
     /\ cur[c].shape = "SubscriptionResponse"
     /\ cur[c].result = "None"
     /\ cur[c].code # 0) =>
      /\ cbN[c] = 1
      /\ cbArg[c] = Arg("Err", "SubscriptionError", cur[c].id, cur[c].code,
                        cur[c].message, cur[c].channel, "None")
      /\ cbDone[c] = 1

\* C11: at the end of the arm of a SubscriptionResponse that carries a result, whatever
\* its code, the callback has been called once, with Ok wrapping that result, and the
\* call was awaited to completion; nothing was written.
C11_ResultDelivered ==
  \A c \in Conns:
    (/\ tpc[c] = "iter_end"
     /\ cur[c].shape = "SubscriptionResponse"
     /\ cur[c].result # "None") =>
      /\ cbN[c] = 1
      /\ cbDone[c] = 1
      /\ cbArg[c] = Arg("Ok", "Result", 0, 0, "None", "None", cur[c].result)
      /\ wrN[c] = 0

C11_Witness ==
  \E c \in Conns:
    /\ tpc[c] = "iter_end"
    /\ cur[c].shape = "SubscriptionResponse"
    /\ cur[c].code # 0
    /\ cbDone[c] = 1
    /\ cbArg[c].tag = "Ok" /\ cbArg[c].data = "r2"

\* C12: the arm of a text frame that does not decode calls the callback once, with the
\* SerdeError, and awaits it; the task does not return: it goes back to read.next(),
\* where the frames that follow are taken as before.
C12_DecodeErrorArm ==
  \A c \in Conns:
    (tpc[c] = "iter_end" /\ cur[c].shape = "Malformed") =>
      /\ cbN[c] = 1
      /\ cbDone[c] = 1
      /\ cbArg[c] = ErrArg("SerdeError", "None")
      /\ wrN[c] = 0

C12_DecodeErrorStep ==
  \A c \in Conns:
    (tpc[c] = "iter_end" /\ cur[c].shape = "Malformed") =>
      /\ tpc'[c] = "read"
      /\ outcome'[c] = NoRes
      /\ join_result'[c] = join_result[c]

C12_DecodeErrorKeepsLoop == []C12_DecodeErrorArm /\ [][C12_DecodeErrorStep]_vars

C12_Witness ==
  \E c \in Conns:
    /\ tpc[c] = "iter_end" /\ cur[c].shape = "Malformed" /\ cbDone[c] = 1
    /\ nframes < MaxFrames

\* C13: when disconnect returns, with Ok or with an error, on a session that holds the
\* JoinHandle of a task, that task has finished (cancelled or returned), so it calls
\* the callback and writes no more.
C13_DisconnectCancelsTask ==
  (Returned({"disconnect"}) /\ ret.pre.reader_join # None) =>
    /\ tpc[ret.pre.reader_join] \in {"finished", "cancelled"}
    /\ cbN[ret.pre.reader_join] = 0
    /\ wrN[ret.pre.reader_join] = 0

\* C14: the send handle and the task handle of the session are those of the connection
\* opened last, and the task of a connection that was replaced by a later connect
\* dispatches nothing any more: it takes no frame from its stream, and is in no call of
\* the callback and in no write.
C14_OneTransport ==
  /\ writer = nconn /\ reader_join = nconn
  /\ \A c \in Conns:
       (tpc[c] # "none" /\ c # nconn) =>
         /\ tpc[c] \notin {"evlock", "wlock", "send", "cb", "iter_end"}
         /\ cur[c] = NoFrame /\ cbN[c] = 0 /\ wrN[c] = 0

\* C15: no call of the callback is made from inside connect, subscribe, unsubscribe or
\* auth, whether they fail or not: their error is the value they return; every call of
\* the callback is made by a background task for the frame it is handling, and never
\* carries NotConnectedError or a signing error.
C15_CallerErrorsReturned ==
  /\ callerCb = 0
  /\ \A c \in Conns:
       cbN[c] > 0 =>
         /\ cur[c] # NoFrame
         /\ cbArg[c].kind \notin {"NotConnectedError", "ShaInvalidLength", "none"}

C15_Witness ==
  /\ Returned({"subscribe"})
  /\ ret.res.kind = "TungsteniteError"
  /\ \E c \in Conns: tpc[c] = "cb" /\ cbN[c] = 1

\* C16: wait is suspended only on a session that holds a JoinHandle; when it returns the
\* task of that handle has finished; without a handle it returns Ok(()); and it leaves
\* message_id, writer and reader_join as it found them.
C16_WaitReturnsAfterTask ==
  /\ cpc = "wait_join" => reader_join # None
  /\ Returned({"wait"}) =>
       /\ reader_join # None => tpc[reader_join] \in {"finished", "cancelled"}
       /\ ret.pre.reader_join = None => ret.res = OkRes
       /\ message_id = ret.pre.message_id
       /\ writer = ret.pre.writer
       /\ reader_join = ret.pre.reader_join
       /\ life = ret.pre.life

C16_Witness ==
  /\ Returned({"wait"})
  /\ ret.pre.reader_join # None
  /\ ~ret.pre.finished
  /\ ret.res.kind = "CloseError"

\* C17: a disconnect made when nothing is connected (no connect has succeeded yet, or
\* the last disconnect returned Ok and no connect succeeded since) returns Ok(()),
\* attempts nothing on a send handle and leaves message_id, writer and reader_join as
\* they were; in particular a second disconnect in a row comes back like the first.
C17_DisconnectIdempotent ==
  /\ (Returned({"disconnect"}) /\ ret.pre.life \in {"none", "disconnect"}) =>
       /\ ret.res = OkRes
       /\ ~ret.tried
       /\ message_id = ret.pre.message_id
       /\ writer = ret.pre.writer
       /\ reader_join = ret.pre.reader_join
  /\ cpc = "panicked" => life # "disconnect"

\* C18: the text of a HeartbeatResponse is the object of "method":
\* "public/respond-heartbeat" and the id, and nothing else; the text of a Subscribe is
\* the object of "method": "subscribe", the id, the params exactly as given, and the
\* nonce, in this order; the two texts of the tests of subscription.rs come out.
C18_WireText ==
  wtext # NoText =>
    /\ wreq.variant = "HeartbeatResponse" =>
         wtext = "{\"method\":\"public/respond-heartbeat\",\"id\":" \o Dec(wreq.id) \o "}"
    /\ wreq.variant = "Subscribe" =>
         wtext = "{\"method\":\"subscribe\",\"id\":" \o Dec(wreq.id) \o ",\"params\":"
                   \o wreq.params \o ",\"nonce\":" \o Dec(wreq.nonce) \o "}"
    /\ wreq = WireRequest("HeartbeatResponse", 19, "", <<>>, "", "", 0) =>
         wtext = "{\"method\":\"public/respond-heartbeat\",\"id\":19}"
    /\ wreq = WireRequest("Subscribe", 22, "{\"channels\":[\"channel1\",\"channel2\"]}",
                          <<>>, "", "", 2) =>
         wtext = "{\"method\":\"subscribe\",\"id\":22,\"params\":{\"channels\":[\"channel1\",\"channel2\"]},\"nonce\":2}"

C18_Witness ==
  /\ wreq.variant = "Subscribe"
  /\ wtext = "{\"method\":\"subscribe\",\"id\":22,\"params\":{\"channels\":[\"channel1\",\"channel2\"]},\"nonce\":2}"

\* C19: at the end of the arm of a HeartbeatRequest whose answer was serialized but
\* could not be sent, the callback has been called once with the error of the send,
\* and the call has run to completion.
C19_HeartbeatFailureReported ==
  \A c \in Conns:
    (/\ tpc[c] = "iter_end"
     /\ cur[c].shape = "HeartbeatRequest"
     /\ wrN[c] = 0
     /\ cbArg[c].kind # "SerdeError") =>
      /\ cbN[c] = 1
      /\ cbArg[c] = ErrArg("TungsteniteError", "None")
      /\ cbDone[c] = 1

\* C20: the arm of a read error calls the callback once, with the error as a string,
\* awaits it and records the error in join_result; the task then goes back to
\* read.next(); the recorded error stays while later frames are handled; when the
\* stream ends the task returns join_result, which is an error only if a read error
\* was recorded.
C20_ReadErrorArm ==
  \A c \in Conns:
    (tpc[c] = "iter_end" /\ cur[c].kind = "ReadError") =>
      /\ cbN[c] = 1
      /\ cbDone[c] = 1
      /\ cbArg[c] = ErrArg("TungsteniteErrorString", "None")
      /\ join_result[c] = Res("TungsteniteError", "None")
      /\ wrN[c] = 0

C20_ReadErrorStep ==
  \A c \in Conns:
    /\ (tpc[c] = "iter_end" /\ cur[c].kind = "ReadError") => tpc'[c] = "read"
    /\ (join_result[c] # OkRes /\ tpc'[c] \notin {"finished", "cancelled"}) =>
         join_result'[c] = join_result[c]
    /\ (join_result[c] = OkRes /\ join_result'[c] # OkRes) =>
         /\ tpc[c] = "cb" /\ cur[c].kind = "ReadError"
         /\ join_result'[c] = Res("TungsteniteError", "None")
    /\ (tpc[c] = "read" /\ tpc'[c] = "finished" /\ reader_join = c) =>
         outcome'[c] = join_result[c]

C20_ReadErrorRecorded == []C20_ReadErrorArm /\ [][C20_ReadErrorStep]_vars

C20_Witness ==
  \E c \in Conns:
    /\ tpc[c] = "iter_end"
    /\ cur[c].shape = "UnsubscriptionResponse"
    /\ cbDone[c] = 1
    /\ join_result[c] = Res("TungsteniteError", "None")

\* C21: a running task comes to an end in three ways only: it returns at the end of the
\* arm of a Close frame, it returns when read.next() yields None, or it is cancelled
\* after disconnect has called abort on its JoinHandle; the arm of any other frame, and
\* of a read error, leaves it running.
C21_TaskEnds ==
  \A c \in Conns:
    (tpc[c] \notin {"none", "finished", "cancelled"} /\ tpc'[c] \in {"finished", "cancelled"}) =>
      \/ tpc'[c] = "finished" /\ tpc[c] = "iter_end" /\ cur[c].kind = "Close"
      \/ tpc'[c] = "finished" /\ tpc[c] = "read" /\ cur[c] = NoFrame
      \/ tpc'[c] = "cancelled" /\ abort[c] /\ cpc = "disc_join"

C21_LoopEndsOnlyByCloseExhaustionCancel == [][C21_TaskEnds]_vars

C21_Witness ==
  \E c \in Conns:
    /\ tpc[c] = "read"
    /\ join_result[c] = Res("TungsteniteError", "None")
    /\ nframes = MaxFrames

\* C22: at the end of the arm of a Ping the task has attempted one write: either it wrote
\* one Pong with the payload of the Ping and did not call the callback, or the write
\* failed, nothing was written, and the callback was called once with that error and
\* awaited; at the end of the arm of a Pong nothing was written and the callback was not
\* called; after either arm the task goes back to read.next().
C22_PingPongArm ==
  \A c \in Conns:
    /\ (tpc[c] = "iter_end" /\ cur[c].kind = "Ping") =>
         \/ /\ wrN[c] = 1
            /\ twr[c] = [method |-> "Pong", id |-> 0, data |-> cur[c].data]
            /\ cbN[c] = 0 /\ cbDone[c] = 0
         \/ /\ wrN[c] = 0
            /\ cbN[c] = 1 /\ cbDone[c] = 1
            /\ cbArg[c] = ErrArg("TungsteniteError", "None")
    /\ (tpc[c] = "iter_end" /\ cur[c].kind = "Pong") =>
         wrN[c] = 0 /\ cbN[c] = 0 /\ cbDone[c] = 0

C22_PingPongStep ==
  \A c \in Conns:
    (tpc[c] = "iter_end" /\ cur[c].kind \in {"Ping", "Pong"}) =>
      /\ tpc'[c] = "read"
      /\ wlock'[c] # "task"

C22_PingAnswered == []C22_PingPongArm /\ [][C22_PingPongStep]_vars

C22_Witness ==
  \E c \in Conns:
    /\ tpc[c] = "iter_end" /\ cur[c].kind = "Ping" /\ cur[c].data = "p2"
    /\ wrN[c] = 1 /\ twr[c].data = "p2"

\* C23: the arm of a SubscriptionResponse with code 0 and without result does nothing:
\* at its end the callback was not called and nothing was written, and the step to the
\* next read.next() leaves message_id, writer, reader_join, the send handle, join_result
\* and the output of the task as they were.
C23_NoResultArm ==
  \A c \in Conns:
    (/\ tpc[c] = "iter_end"
     /\ cur[c].shape = "SubscriptionResponse"
     /\ cur[c].result = "None"
     /\ cur[c].code = 0) =>
      /\ cbN[c] = 0 /\ cbDone[c] = 0 /\ cbArg[c] = NoArg
      /\ wrN[c] = 0 /\ twr[c] = NoMsg
      /\ wlock[c] # "task"

C23_NoResultStep ==
  \A c \in Conns:
    (/\ tpc[c] = "iter_end"
     /\ cur[c].shape = "SubscriptionResponse"
     /\ cur[c].result = "None"
     /\ cur[c].code = 0) =>
      /\ tpc'[c] = "read"
      /\ UNCHANGED <<message_id, writer, reader_join, life, open, wlock, join_result,
                     outcome, sentIds>>

C23_NoResultNoOp == []C23_NoResultArm /\ [][C23_NoResultStep]_vars

C23_Witness ==
  \E c \in Conns:
    /\ tpc[c] = "iter_end"
    /\ cur[c] = Fr("Text", "SubscriptionResponse", 1, 0, "None", "None", "None", "None")
    /\ message_id = 2

\* C24: message_id is changed only by a subscribe, unsubscribe or auth that returns Ok,
\* and then by exactly one: every step of the background task and every step of connect,
\* disconnect and wait leaves it as it was, so the counter a reconnect finds is the one
\* the session had before the disconnect.
C24_IdStep ==
  message_id' # message_id =>
    /\ cpc = "send_write"
    /\ cpc' = "returned"
    /\ ret'.op \in SendOps
    /\ ret'.res = OkRes
    /\ message_id' = message_id + 1
    /\ \A c \in Conns: tpc'[c] = tpc[c]
C24_IdChangedOnlyBySend == [][C24_IdStep]_vars
C24_Witness ==
  /\ Returned({"connect"})
  /\ ret.res = OkRes
  /\ ret.pre.life = "disconnect"
  /\ nconn = 2
  /\ message_id = 2
  /\ ret.pre.message_id = 2

\* C25: no deadlock between the caller and the background task. The task takes the lock
\* of the callback and then, for a heartbeat answer or a pong, the lock of the send
\* handle; subscribe, unsubscribe, auth and disconnect take the lock of the send handle
\* only. When writes and calls of the callback complete, a caller that waits for the
\* send handle gets it, and so does a task that waits for the callback or the send
\* handle: at no wait for a lock does either side stay from some moment on.
C25_NoLockWaitForever ==
  /\ []<>(cpc \notin {"send_lock", "disc_lock"})
  /\ \A c \in Conns:
       /\ []<>(tpc[c] # "evlock")
       /\ []<>(tpc[c] # "wlock")
C25_Witness ==
  /\ cpc \in {"send_lock", "disc_lock"}
  /\ writer # None
  /\ wlock[writer] = "task"
  /\ events = writer
  /\ tpc[writer] = "cb"
  /\ cur[writer].kind = "Ping"

\* C26: a connect whose handshake fails returns the error of the transport and leaves
\* the session as it was: the stored send handle, the stored handle of the background
\* task and message_id are those found by the call, and no background task is spawned,
\* so a session connected before still uses the connection it had.
C26_FailedConnectChangesNothing ==
  (Returned({"connect"}) /\ ret.res # OkRes) =>
    /\ ret.res.kind = "TungsteniteError"
    /\ writer = ret.pre.writer
    /\ reader_join = ret.pre.reader_join
    /\ message_id = ret.pre.message_id
    /\ life = ret.pre.life
    /\ nconn = ret.pre.nconn
    /\ \A c \in Conns: c > ret.pre.nconn => tpc[c] = "none"
C26_Witness ==
  /\ Returned({"connect"})
  /\ ret.res.kind = "TungsteniteError"
  /\ ret.pre.writer = 1
  /\ writer = 1
  /\ reader_join = 1
  /\ tpc[1] = "read"
  /\ open[1]
  /\ message_id = 2

====
